---- MODULE Spec2Model ----
(***************************************************************************)
(* A model of piazzagpt's transform pipeline (src/piazzagpt/main.py):      *)
(*   - _transform_post, the thread flattener, as the operator              *)
(*     transform_post over dictionaries modelled as functions whose        *)
(*     DOMAIN is the set of keys that are present;                         *)
(*   - remove_all_files_in_folder, the recursive directory cleanup;        *)
(*   - transform, the corpus walker, with is_course.                       *)
(* Three specifications share the module: SpecFlatten applies the          *)
(* flattener to one thread, SpecCleanup runs the cleanup on a directory    *)
(* tree, SpecWalker runs transform (several times) on a corpus.            *)
(***************************************************************************)
EXTENDS Integers, Sequences, FiniteSets, TLC

VARIABLES
    post,        \* SpecFlatten: the thread handed to _transform_post
    flat,        \* SpecFlatten: what the call produced (records or an exception)
    folder,      \* SpecCleanup: the directory tree handed to the cleanup
    cleaned,     \* SpecCleanup: what the cleanup produced
    course,      \* SpecWalker: the course argument, a sequence of characters
    data,        \* SpecWalker: the raw data directory of the course
    out,         \* SpecWalker: the directory transformed_data/<course>
    outs,        \* SpecWalker: out at the start and after each run of transform
    raised       \* SpecWalker: how the last run of transform ended

vars == <<post, flat, folder, cleaned, course, data, out, outs, raised>>

----------------------------------------------------------------------------
(* Bounds of the model.                                                    *)

MaxChildren == 2
MaxEntries == 2
MaxFiles == 2
MaxRuns == 2

----------------------------------------------------------------------------
(* Python values.                                                          *)

\* Python's None (json null); no string of the model spells it.
None == "<None>"

\* dict.get(key, default)
Get(d, key, default) == IF key \in DOMAIN d THEN d[key] ELSE default

\* truth value of a string-or-None, as `if item.get("subject")` tests it
Truthy(v) == v # None /\ v # ""

Min(S) == CHOOSE m \in S : \A n \in S : m <= n

----------------------------------------------------------------------------
(* _transform_post                                                         *)

\* the exceptions a call can end with; NoError is a normal return
NoError == "returned"
IndexError == "IndexError"

\* next((item for item in post.get("history", []) if item.get("subject")), {})
original_question_info(p) ==
    LET history == Get(p, "history", <<>>)
        hits == {i \in 1..Len(history) : Truthy(Get(history[i], "subject", None))}
    IN  IF hits = {} THEN <<>> ELSE history[Min(hits)]

IsInstructorAnswer(child) == Get(child, "type", "") = "i_answer"

\* the children the generator of instructor_answer yields from, in order
InstructorAnswers(p) ==
    SelectSeq(Get(p, "children", <<>>), IsInstructorAnswer)

\* child.get("history", [{}])[0] raises IndexError on an empty history
InstructorAnswerRaises(p) ==
    /\ InstructorAnswers(p) # <<>>
    /\ Get(Head(InstructorAnswers(p)), "history", << <<>> >>) = <<>>

\* a slip: the last revision of the history instead of history[0]
instructor_answer_last_revision(p) ==
    IF InstructorAnswers(p) = <<>>
    THEN None
    ELSE LET history == Get(Head(InstructorAnswers(p)), "history", << <<>> >>)
         IN  Get(history[Len(history)], "content", None)

\* next((child.get("history", [{}])[0].get("content", None) for ... ), None)
instructor_answer(p) ==
    IF InstructorAnswers(p) = <<>>
    THEN None
    ELSE Get(Head(Get(Head(InstructorAnswers(p)), "history", << <<>> >>)),
             "content", None)

original_question_id(p) == Get(p, "id", "original")

\* the root record: transformed_post
RootRecord(p) ==
    [question_id |-> original_question_id(p),
     subject |-> Get(original_question_info(p), "subject", ""),
     question |-> Get(original_question_info(p), "content", ""),
     answer |-> instructor_answer(p),
     metadata |-> [is_follow_up |-> FALSE,
                   upvotes |-> Get(p, "num_favorites", 0)]]

\* f"followup_{len(transformed_post)}": transformed_post is the root record,
\* a dict, so its len is the number of its keys
follow_up_question_id_default(p) ==
    "followup_" \o ToString(Cardinality(DOMAIN RootRecord(p)))

\* next((child_answer.get("subject", "") for child_answer in children), None)
follow_up_answer(child) ==
    LET grand == Get(child, "children", <<>>)
    IN  IF grand = <<>> THEN None ELSE Get(Head(grand), "subject", "")

\* the record appended for one child that is not an instructor answer
FollowUpRecord(p, child) ==
    [question_id |-> Get(child, "id", follow_up_question_id_default(p)),
     question |-> Get(child, "subject", ""),
     answer |-> follow_up_answer(child),
     metadata |-> [is_follow_up |-> TRUE,
                   upvotes |-> Get(child, "num_favorites", 0),
                   original_question_id |-> original_question_id(p)]]

RECURSIVE FollowUpsKeepAnswers(_, _, _)
\* a slip: the loop without its `continue` for instructor answers
FollowUpsKeepAnswers(p, k, acc) ==
    LET children == Get(p, "children", <<>>)
    IN  IF k > Len(children) THEN acc
        ELSE FollowUpsKeepAnswers(p, k + 1,
                                  Append(acc, FollowUpRecord(p, children[k])))

RECURSIVE FollowUps(_, _, _)
\* the loop `for child in post.get("children", [])` from child k on, with
\* acc the list transformed_posts so far
FollowUps(p, k, acc) ==
    LET children == Get(p, "children", <<>>)
    IN  IF k > Len(children) THEN acc
        ELSE IF IsInstructorAnswer(children[k]) THEN FollowUps(p, k + 1, acc)
        ELSE FollowUps(p, k + 1,
                       Append(acc, FollowUpRecord(p, children[k])))

transform_post(p) ==
    IF InstructorAnswerRaises(p)
    THEN [error |-> IndexError, records |-> <<>>]
    ELSE [error |-> NoError, records |-> FollowUps(p, 1, <<RootRecord(p)>>)]

----------------------------------------------------------------------------
(* The threads of SpecFlatten.                                             *)

\* with(d, key, S): the dictionaries that extend d by key, with a value of S
With(D, key, S) ==
    {[k \in DOMAIN d \cup {key} |-> IF k = key THEN v ELSE d[k]] : d \in D, v \in S}

\* Opt(D, key, S): key absent, or present with a value of S
Opt(D, key, S) == D \cup With(D, key, S)

EmptyDict == <<>>

\* histories of an instructor-answer child; history[0] decides the answer
AnswerHistories ==
    { <<>>,
      << [content |-> "42"] >>,
      << [content |-> ""] >>,
      << [subject |-> "re"] >>,
      << [content |-> "42"], [content |-> "43"] >>,
      << [subject |-> "re"], [content |-> "43"] >> }

InstructorAnswerChildren ==
    Opt({[type |-> "i_answer"]}, "history", AnswerHistories)

GrandChildren ==
    { << [subject |-> "because"] >>,
      << [content |-> "x"], [subject |-> "late"] >> }

FollowUpChildren ==
    Opt(Opt(Opt({[type |-> "followup"]}, "id", {"c1"}),
            "subject", {"why"}),
        "children", GrandChildren)
    \cup {[subject |-> "why", num_favorites |-> 3],
          [type |-> "note", id |-> "c2", subject |-> "", children |-> <<>>]}

Children == InstructorAnswerChildren \cup FollowUpChildren

RECURSIVE SeqsUpTo(_, _)
\* the sequences over S of length at most n
SeqsUpTo(S, n) ==
    IF n = 0 THEN {<<>>}
    ELSE LET shorter == SeqsUpTo(S, n - 1)
         IN  shorter \cup {Append(s, x) : s \in shorter, x \in S}

TitleHistories ==
    { <<>>,
      << [subject |-> "T", content |-> "Q"] >>,
      << [subject |-> "", content |-> "X"], [subject |-> "T", content |-> "Q"] >>,
      << [subject |-> "T"] >> }

Threads ==
    Opt(Opt(Opt(Opt({EmptyDict}, "id", {"t1"}),
                "num_favorites", {7}),
            "history", TitleHistories),
        "children", SeqsUpTo(Children, MaxChildren))

----------------------------------------------------------------------------
(* SpecFlatten: one call of _transform_post.                               *)

NotCalled == [error |-> "not called", records |-> <<>>]

Idle ==
    /\ folder = <<>> /\ cleaned = <<>>
    /\ course = <<>> /\ data = <<>> /\ out = <<>>
    /\ outs = <<>> /\ raised = "not called"

InitFlatten ==
    /\ post \in Threads
    /\ flat = NotCalled
    /\ Idle

Flatten ==
    /\ flat = NotCalled
    /\ flat' = transform_post(post)
    /\ UNCHANGED <<post, folder, cleaned, course, data, out, outs, raised>>

NextFlatten == Flatten

SpecFlatten == InitFlatten /\ [][NextFlatten]_vars

----------------------------------------------------------------------------
(* Claims about _transform_post, checked under SpecFlatten.                *)

Called == flat # NotCalled
Returned == flat.error = NoError

PostChildren == Get(post, "children", <<>>)

\* positions, in input order, of the children typed "i_answer" and of the rest
AnswerPositions ==
    {i \in 1..Len(PostChildren) :
        "type" \in DOMAIN PostChildren[i] /\ PostChildren[i].type = "i_answer"}
FollowUpPositions == (1..Len(PostChildren)) \ AnswerPositions

\* the position of the n-th follow-up child
NthFollowUp(n) ==
    CHOOSE i \in FollowUpPositions :
        Cardinality({j \in FollowUpPositions : j <= i}) = n

FirstAnswerChild == PostChildren[Min(AnswerPositions)]

\* the first instructor-answer child has a history[0]
FirstAnswerHasRevision ==
    /\ AnswerPositions # {}
    /\ "history" \in DOMAIN FirstAnswerChild
    /\ Len(FirstAnswerChild.history) >= 1

\* C2: the root answer is the content of history[0] of the first child typed
\* "i_answer" (null when that revision has no content); with no such child
\* the root answer is null, not the empty string.
C2_RootAnswer ==
    Called =>
        /\ FirstAnswerHasRevision =>
              /\ Returned
              /\ flat.records[1].answer =
                    (IF "content" \in DOMAIN FirstAnswerChild.history[1]
                     THEN FirstAnswerChild.history[1].content
                     ELSE None)
        /\ AnswerPositions = {} =>
              /\ Returned
              /\ flat.records[1].answer = None
              /\ flat.records[1].answer # ""

\* two instructor answers, the first with two revisions: the answer is the
\* first revision of the first of them
C2_Witness ==
    /\ Called /\ Returned
    /\ Cardinality(AnswerPositions) = 2
    /\ FirstAnswerHasRevision
    /\ Len(FirstAnswerChild.history) = 2
    /\ FirstAnswerChild.history[1] # FirstAnswerChild.history[2]
    /\ PostChildren[1] # PostChildren[2]
    /\ flat.records[1].answer = "42"

\* C3: the follow-up records are, one for one and in order, the children
\* that are not typed "i_answer"; no instructor answer is a record.
C3_FollowUpsMatchChildren ==
    (Called /\ Returned) =>
        /\ Len(flat.records) - 1 = Cardinality(FollowUpPositions)
        /\ \A n \in 1..Cardinality(FollowUpPositions) :
              LET child == PostChildren[NthFollowUp(n)]
                  rec == flat.records[n + 1]
              IN  /\ rec.question =
                        (IF "subject" \in DOMAIN child THEN child.subject ELSE "")
                  /\ "id" \in DOMAIN child => rec.question_id = child.id
                  /\ rec.metadata.upvotes =
                        (IF "num_favorites" \in DOMAIN child
                         THEN child.num_favorites ELSE 0)
                  /\ rec.metadata.original_question_id = flat.records[1].question_id
                  /\ rec.answer =
                        (IF "children" \in DOMAIN child /\ Len(child.children) >= 1
                         THEN (IF "subject" \in DOMAIN child.children[1]
                               THEN child.children[1].subject ELSE "")
                         ELSE None)

\* an instructor answer ahead of a follow-up child: the follow-up, not the
\* instructor answer, is the second record
C3_Witness ==
    /\ Called /\ Returned
    /\ Len(PostChildren) = 2
    /\ Cardinality(AnswerPositions) = 1
    /\ Len(flat.records) = 2
    /\ flat.records[2].question = "why"
    /\ flat.records[2].answer = "because"

\* C4: every call returns a non-empty list, root first (is_follow_up false),
\* follow-ups after it (is_follow_up true); no children, one record.
C4_RootThenFollowUps ==
    Called =>
        /\ Returned
        /\ Len(flat.records) >= 1
        /\ flat.records[1].metadata.is_follow_up = FALSE
        /\ \A i \in 2..Len(flat.records) : flat.records[i].metadata.is_follow_up = TRUE
        /\ PostChildren = <<>> => Len(flat.records) = 1

\* C5: two follow-up children without an id get different fallback ids.
C5_FallbackIdsDistinct ==
    (Called /\ Returned) =>
        \A m, n \in 1..Cardinality(FollowUpPositions) :
            (/\ m # n
             /\ "id" \notin DOMAIN PostChildren[NthFollowUp(m)]
             /\ "id" \notin DOMAIN PostChildren[NthFollowUp(n)])
            => flat.records[m + 1].question_id # flat.records[n + 1].question_id

\* C6: the call never raises, whatever is absent or empty; a first
\* instructor answer whose history is present and empty gives a null answer.
C6_NeverRaises ==
    Called =>
        /\ Returned
        /\ (/\ AnswerPositions # {}
            /\ "history" \in DOMAIN FirstAnswerChild
            /\ FirstAnswerChild.history = <<>>)
           => flat.records[1].answer = None

----------------------------------------------------------------------------
(* remove_all_files_in_folder                                              *)

FileNotFoundError == "FileNotFoundError"

\* A directory is the sequence of its entries in os.listdir order. An entry
\* is a file or a directory; deletable says whether os.remove (os.rmdir on
\* an empty directory) succeeds on it or raises OSError.
File(name, deletable, content) ==
    [name |-> name, kind |-> "file", deletable |-> deletable,
     content |-> content, entries |-> <<>>]
Dir(name, deletable, entries) ==
    [name |-> name, kind |-> "dir", deletable |-> deletable,
     content |-> <<>>, entries |-> entries]

\* os.path.join(folder, filename)
Join(path, name) == path \o "/" \o name

RECURSIVE RemoveFromStoppingAtFailure(_, _, _, _)
\* a slip: the try around the whole loop, so the first failure ends it
RemoveFromStoppingAtFailure(path, listing, k, reported) ==
    IF k > Len(listing) THEN [entries |-> <<>>, reported |-> reported]
    ELSE
        LET e == listing[k]
            file_path == Join(path, e.name)
            inner == RemoveFromStoppingAtFailure(file_path, e.entries, 1, reported)
            failed ==
                IF e.kind = "file" THEN ~e.deletable
                ELSE inner.entries # <<>> \/ ~e.deletable
        IN  IF e.name = ".gitkeep"
            THEN LET rest == RemoveFromStoppingAtFailure(path, listing, k + 1, reported)
                 IN  [rest EXCEPT !.entries = <<e>> \o @]
            ELSE IF failed
            THEN [entries |->
                      <<IF e.kind = "dir" THEN [e EXCEPT !.entries = inner.entries] ELSE e>>
                      \o SubSeq(listing, k + 1, Len(listing)),
                  reported |->
                      Append(IF e.kind = "dir" THEN inner.reported ELSE reported,
                             file_path)]
            ELSE RemoveFromStoppingAtFailure(
                     path, listing, k + 1,
                     IF e.kind = "dir" THEN inner.reported ELSE reported)

RECURSIVE RemoveFrom(_, _, _, _)
\* the loop `for filename in os.listdir(folder)` from entry k on; the result
\* is what is left of listing[k..] and the failures printed so far
RemoveFrom(path, listing, k, reported) ==
    IF k > Len(listing) THEN [entries |-> <<>>, reported |-> reported]
    ELSE
        LET e == listing[k]
            file_path == Join(path, e.name)
            \* the recursive call of the elif branch
            inner == RemoveFrom(file_path, e.entries, 1, reported)
        IN  IF e.name = ".gitkeep"
            THEN LET rest == RemoveFrom(path, listing, k + 1, reported)
                 IN  [rest EXCEPT !.entries = <<e>> \o @]
            ELSE IF e.kind = "file"
            THEN IF e.deletable
                 THEN RemoveFrom(path, listing, k + 1, reported)
                 ELSE LET rest == RemoveFrom(path, listing, k + 1,
                                             Append(reported, file_path))
                      IN  [rest EXCEPT !.entries = <<e>> \o @]
            \* os.rmdir raises on a directory that is not empty
            ELSE IF inner.entries = <<>> /\ e.deletable
                 THEN RemoveFrom(path, listing, k + 1, inner.reported)
                 ELSE LET rest == RemoveFrom(path, listing, k + 1,
                                             Append(inner.reported, file_path))
                      IN  [rest EXCEPT !.entries =
                              <<[e EXCEPT !.entries = inner.entries]>> \o @]

\* remove_all_files_in_folder(folder): os.listdir raises when the folder
\* does not exist, outside the try
remove_all_files_in_folder(path, dir) ==
    IF ~dir.exists
    THEN [error |-> FileNotFoundError, dir |-> dir, reported |-> <<>>]
    ELSE LET r == RemoveFrom(path, dir.entries, 1, <<>>)
         IN  [error |-> NoError,
              dir |-> [exists |-> TRUE, entries |-> r.entries],
              reported |-> r.reported]

----------------------------------------------------------------------------
(* SpecCleanup: one call of remove_all_files_in_folder.                    *)

Names(entries) == {entries[i].name : i \in 1..Len(entries)}

RECURSIVE Listings(_, _)
\* the listings of at most n entries of E, no name twice
Listings(E, n) ==
    IF n = 0 THEN {<<>>}
    ELSE LET shorter == Listings(E, n - 1)
         IN  shorter \cup
             UNION {{Append(s, e) : e \in {x \in E : x.name \notin Names(s)}} :
                        s \in shorter}

PlainFiles ==
    {File(n, d, <<>>) : n \in {"a.json", "b.json"}, d \in BOOLEAN}
    \cup {File(".gitkeep", TRUE, <<>>)}

SubDirs == {Dir("sub", d, l) : d \in BOOLEAN, l \in Listings(PlainFiles, MaxEntries)}

Folders ==
    {[exists |-> FALSE, entries |-> <<>>]}
    \cup {[exists |-> TRUE, entries |-> l] :
            l \in Listings(PlainFiles \cup SubDirs, MaxEntries)}

NotCleaned == [error |-> "not called", before |-> <<>>, reported |-> <<>>]

InitCleanup ==
    /\ folder \in Folders
    /\ cleaned = NotCleaned
    /\ post = <<>> /\ flat = NotCalled
    /\ course = <<>> /\ data = <<>> /\ out = <<>>
    /\ outs = <<>> /\ raised = "not called"

Cleanup ==
    /\ cleaned = NotCleaned
    /\ LET r == remove_all_files_in_folder("vectorstore", folder)
       IN  /\ folder' = r.dir
           /\ cleaned' = [error |-> r.error, before |-> folder, reported |-> r.reported]
    /\ UNCHANGED <<post, flat, course, data, out, outs, raised>>

NextCleanup == Cleanup

SpecCleanup == InitCleanup /\ [][NextCleanup]_vars

----------------------------------------------------------------------------
(* Claims about remove_all_files_in_folder, checked under SpecCleanup.     *)

Elems(seq) == {seq[i] : i \in 1..Len(seq)}

\* nothing that could be deleted is left in a listing: no deletable file,
\* no deletable directory that became empty; .gitkeep is never touched
NothingDeletableLeft(entries) ==
    \A e \in Elems(entries) :
        e.name # ".gitkeep" =>
            /\ e.kind = "file" => ~e.deletable
            /\ e.kind = "dir" => ~(e.deletable /\ e.entries = <<>>)

\* the paths of the entries left in a listing that are not .gitkeep
LeftPaths(path, entries) ==
    {Join(path, e.name) : e \in {x \in Elems(entries) : x.name # ".gitkeep"}}

\* C9: a deletion that fails is reported and the cleanup goes on: it
\* returns normally, and nothing that can be deleted is left, at the top
\* level or in a sub-directory.
C9_CleanupGoesOn ==
    (cleaned # NotCleaned /\ cleaned.before.exists) =>
        /\ cleaned.error = NoError
        /\ NothingDeletableLeft(folder.entries)
        /\ \A e \in Elems(folder.entries) :
              /\ e.kind = "dir" => NothingDeletableLeft(e.entries)
              /\ e.kind = "dir" =>
                    LeftPaths(Join("vectorstore", e.name), e.entries)
                        \subseteq Elems(cleaned.reported)
        /\ LeftPaths("vectorstore", folder.entries) \subseteq Elems(cleaned.reported)
        /\ Names(folder.entries) \subseteq Names(cleaned.before.entries)

\* a deletion failed in the sub-directory and at the top level, each ahead
\* of an entry that could be deleted, and those entries are gone
C9_Witness ==
    /\ cleaned # NotCleaned /\ cleaned.error = NoError
    /\ Len(cleaned.before.entries) = 2
    /\ cleaned.before.entries[1].kind = "dir"
    /\ Len(cleaned.before.entries[1].entries) = 2
    /\ ~cleaned.before.entries[1].entries[1].deletable
    /\ cleaned.before.entries[1].entries[2].deletable
    /\ cleaned.before.entries[1].entries[2].name # ".gitkeep"
    /\ cleaned.before.entries[2].deletable
    /\ cleaned.before.entries[2].name # ".gitkeep"
    /\ Len(folder.entries) = 1
    /\ Len(folder.entries[1].entries) = 1
    /\ Len(cleaned.reported) = 2

----------------------------------------------------------------------------
(* is_course                                                               *)

Digits == {"0", "1", "2", "3", "4", "5", "6", "7", "8", "9"}

\* course.split(" "): the pieces between the spaces of a character sequence
RECURSIVE Split(_, _, _)
Split(chars, k, piece) ==
    IF k > Len(chars) THEN <<piece>>
    ELSE IF chars[k] = " " THEN <<piece>> \o Split(chars, k + 1, <<>>)
    ELSE Split(chars, k + 1, Append(piece, chars[k]))

\* str.isdigit(): not empty, every character a digit
IsDigit(chars) == chars # <<>> /\ \A i \in 1..Len(chars) : chars[i] \in Digits

is_course(c) ==
    IF Len(Split(c, 1, <<>>)) # 2 THEN FALSE
    ELSE IF ~IsDigit(Split(c, 1, <<>>)[2]) THEN FALSE
    ELSE TRUE

----------------------------------------------------------------------------
(* transform                                                               *)

ValueError == "ValueError"
JSONDecodeError == "JSONDecodeError"
FileExistsError == "FileExistsError"
IsADirectoryError == "IsADirectoryError"

\* the position of the entry called name in a listing, 0 when there is none
Position(listing, name) ==
    IF name \in Names(listing)
    THEN CHOOSE i \in 1..Len(listing) : listing[i].name = name
    ELSE 0

\* os.makedirs(path, exist_ok=True) of one directory in a listing; a file
\* under that name makes it raise
MakeDirs(listing, name) ==
    LET at == Position(listing, name)
    IN  IF at = 0
        THEN [error |-> NoError, entries |-> Append(listing, Dir(name, TRUE, <<>>))]
        ELSE IF listing[at].kind = "dir"
        THEN [error |-> NoError, entries |-> listing]
        ELSE [error |-> FileExistsError, entries |-> listing]

\* a slip: the file opened in mode "a", so that what it held stays
WriteFileAppending(listing, name, document) ==
    LET at == Position(listing, name)
    IN  IF at = 0
        THEN [error |-> NoError,
              entries |-> Append(listing, File(name, TRUE, <<document>>))]
        ELSE IF listing[at].kind = "file"
        THEN [error |-> NoError,
              entries |-> [listing EXCEPT ![at].content = Append(@, document)]]
        ELSE [error |-> IsADirectoryError, entries |-> listing]

\* with open(path, "w") as f: f.write(json.dumps(record)). A file holds the
\* sequence of the JSON documents written to it; mode "w" truncates it.
WriteFile(listing, name, document) ==
    LET at == Position(listing, name)
    IN  IF at = 0
        THEN [error |-> NoError,
              entries |-> Append(listing, File(name, TRUE, <<document>>))]
        ELSE IF listing[at].kind = "file"
        THEN [error |-> NoError,
              entries |-> [listing EXCEPT ![at].content = <<document>>]]
        ELSE [error |-> IsADirectoryError, entries |-> listing]

\* transformed_post.get("question", "") == "" or
\* transformed_post.get("answer", "") == "": None is not equal to ""
SkipsRecord(record) ==
    \/ Get(record, "question", "") = ""
    \/ Get(record, "answer", "") = ""

\* f"{basename}-{i}.json", basename = os.path.splitext(piazza_file)[0]
OutputName(stem, i) == stem \o "-" \o ToString(i) \o ".json"

RECURSIVE WriteRecords(_, _, _, _)
\* the loop `for i, transformed_post in enumerate(transformed_posts)` from
\* the record at (0-based) index i on, writing into an instance's listing
WriteRecords(listing, stem, records, i) ==
    IF i >= Len(records) THEN [error |-> NoError, entries |-> listing]
    ELSE IF SkipsRecord(records[i + 1])
    THEN WriteRecords(listing, stem, records, i + 1)
    ELSE LET w == WriteFile(listing, OutputName(stem, i), records[i + 1])
         IN  IF w.error # NoError THEN w
             ELSE WriteRecords(w.entries, stem, records, i + 1)

RECURSIVE TransformFiles(_, _, _)
\* the loop `for piazza_file in os.listdir(course_instance_path)` from file
\* k on; json.load and _transform_post are under no try
TransformFiles(files, k, listing) ==
    IF k > Len(files) THEN [error |-> NoError, entries |-> listing]
    ELSE IF ~files[k].json THEN [error |-> JSONDecodeError, entries |-> listing]
    ELSE LET transformed_posts == transform_post(files[k].post)
         IN  IF transformed_posts.error # NoError
             THEN [error |-> transformed_posts.error, entries |-> listing]
             ELSE LET w == WriteRecords(listing, files[k].stem,
                                        transformed_posts.records, 0)
                  IN  IF w.error # NoError THEN w
                      ELSE TransformFiles(files, k + 1, w.entries)

RECURSIVE TransformInstances(_, _, _)
\* the loop `for course_id in course_ids_in_profile` from instance k on
TransformInstances(d, k, entries) ==
    IF k > Len(d.profile) THEN [error |-> NoError, entries |-> entries]
    ELSE
        LET course_id == d.profile[k]
            instance == d.instances[course_id]
            made == MakeDirs(entries, course_id)
            at == Position(made.entries, course_id)
            written == TransformFiles(instance.files, 1, made.entries[at].entries)
            after == [made.entries EXCEPT ![at].entries = written.entries]
        IN  IF ~instance.exists THEN [error |-> ValueError, entries |-> entries]
            ELSE IF made.error # NoError THEN made
            ELSE IF written.error # NoError
            THEN [error |-> written.error, entries |-> after]
            ELSE TransformInstances(d, k + 1, after)

\* a slip: the destructive cleanup ahead of the checks of the argument
transform_cleaning_first(c, d, o) ==
    LET removed == remove_all_files_in_folder("transformed_data", o)
        walked == TransformInstances(d, 1, removed.dir.entries)
    IN  IF removed.error # NoError THEN [error |-> removed.error, dir |-> o]
        ELSE IF ~is_course(c) THEN [error |-> ValueError, dir |-> removed.dir]
        ELSE IF ~d.exists THEN [error |-> ValueError, dir |-> removed.dir]
        ELSE [error |-> walked.error,
              dir |-> [exists |-> TRUE, entries |-> walked.entries]]

\* transform(course) on the raw data d and the output directory o: how it
\* ends and the output directory it leaves
transform(c, d, o) ==
    LET removed == remove_all_files_in_folder("transformed_data", o)
        walked == TransformInstances(d, 1, removed.dir.entries)
    IN  IF ~is_course(c) THEN [error |-> ValueError, dir |-> o]
        ELSE IF ~d.exists THEN [error |-> ValueError, dir |-> o]
        ELSE IF removed.error # NoError THEN [error |-> removed.error, dir |-> o]
        ELSE [error |-> walked.error,
              dir |-> [exists |-> TRUE, entries |-> walked.entries]]

----------------------------------------------------------------------------
(* The corpora of SpecWalker.                                              *)

Courses ==
    { <<"C", "S", " ", "2", "1">>,
      <<" ", "2", "1">>,
      <<"C", "S", "2", "1">>,
      <<"C", "S", " ", "2", "x">>,
      <<"C", "S", " ">>,
      <<"C", " ", "2", " ", "1">> }

TitledHistory == << [subject |-> "T", content |-> "Q"] >>
AnswerChild(history) == [type |-> "i_answer", history |-> history]

WalkerThreads ==
    { \* a question with an instructor answer and an answered follow-up
      [id |-> "t1", history |-> TitledHistory,
       children |-> << AnswerChild(<< [content |-> "42"] >>),
                       [id |-> "c1", subject |-> "why",
                        children |-> << [subject |-> "because"] >>] >>],
      \* a question nobody answered, with a follow-up nobody answered
      [history |-> TitledHistory, children |-> << [subject |-> "why"] >>],
      \* an answer to no question
      [id |-> "t3", children |-> << AnswerChild(<< [content |-> "42"] >>) >>],
      \* empty answers
      [history |-> TitledHistory,
       children |-> << AnswerChild(<< [content |-> ""] >>),
                       [subject |-> "why", children |-> << [subject |-> ""] >>] >>],
      \* an instructor answer without a revision
      [history |-> TitledHistory, children |-> << AnswerChild(<<>>) >>] }

\* a raw file <stem>.json: a thread, or bytes that are no JSON
RawFile(stem, json, p) == [stem |-> stem, json |-> json, post |-> p]

Documents ==
    {[json |-> TRUE, post |-> t] : t \in WalkerThreads}
    \cup {[json |-> FALSE, post |-> <<>>]}

RECURSIVE RawListings(_)
\* the listings 1.json .. n.json for n up to the bound
RawListings(n) ==
    IF n = 0 THEN {<<>>}
    ELSE RawListings(n - 1) \cup
         {Append(l, RawFile(ToString(n), doc.json, doc.post)) :
             l \in {x \in RawListings(n - 1) : Len(x) = n - 1}, doc \in Documents}

NotDownloaded == [exists |-> FALSE, files |-> <<>>]
Downloaded(files) == [exists |-> TRUE, files |-> files]

SecondInstanceFiles ==
    << RawFile("7", TRUE,
               [history |-> TitledHistory,
                children |-> << AnswerChild(<< [content |-> "43"] >>) >>]) >>

DataDirs ==
    {[exists |-> FALSE, profile |-> <<"i1">>,
      instances |-> [i \in {"i1", "i2"} |-> NotDownloaded]]}
    \cup
    {[exists |-> TRUE, profile |-> pr,
      instances |-> [i \in {"i1", "i2"} |-> IF i = "i1" THEN Downloaded(l) ELSE second]] :
        l \in RawListings(MaxFiles),
        pr \in {<<"i1">>, <<"i1", "i2">>},
        second \in {NotDownloaded, Downloaded(SecondInstanceFiles)}}

Stale == << [question_id |-> "old", question |-> "gone", answer |-> "gone"] >>

OutDirs ==
    { [exists |-> FALSE, entries |-> <<>>],
      [exists |-> TRUE, entries |-> <<>>],
      [exists |-> TRUE, entries |->
          << File(".gitkeep", TRUE, <<>>),
             Dir("i1", TRUE, << File("1-0.json", TRUE, Stale),
                                File("9-0.json", TRUE, Stale) >>) >>],
      [exists |-> TRUE, entries |->
          << Dir("i1", TRUE, << File("1-0.json", FALSE, Stale),
                                File("9-1.json", TRUE, Stale) >>),
             Dir("i0", TRUE, << File("1-0.json", TRUE, Stale) >>) >>],
      [exists |-> TRUE, entries |->
          << Dir("i1", FALSE, << File("9-0.json", FALSE, Stale) >>),
             File("i2", FALSE, Stale) >>] }

----------------------------------------------------------------------------
(* SpecWalker: runs of transform on an unchanged corpus.                   *)

InitWalker ==
    /\ course \in Courses
    /\ data \in DataDirs
    /\ out \in OutDirs
    /\ outs = <<out>>
    /\ raised = "not called"
    /\ post = <<>> /\ flat = NotCalled
    /\ folder = <<>> /\ cleaned = <<>>

Transform ==
    /\ Len(outs) <= MaxRuns
    /\ LET r == transform(course, data, out)
       IN  /\ raised' = r.error
           /\ out' = r.dir
           /\ outs' = Append(outs, r.dir)
    /\ UNCHANGED <<post, flat, folder, cleaned, course, data>>

NextWalker == Transform

SpecWalker == InitWalker /\ [][NextWalker]_vars

----------------------------------------------------------------------------
(* Claims about transform, checked under SpecWalker.                       *)

Ran == Len(outs) >= 2

\* the output directory as the last run found it
OutBefore == outs[Len(outs) - 1]

\* the files of the instance directories of an output directory
OutputFiles(dir) ==
    UNION {Elems(e.entries) : e \in {x \in Elems(dir.entries) : x.kind = "dir"}}

\* the raw files of the instances of the profile
ProfileFiles ==
    UNION {Elems(data.instances[data.profile[k]].files) : k \in 1..Len(data.profile)}

\* the records _transform_post returns for the raw files of the corpus
FlattenedRecords ==
    UNION {Elems(transform_post(f.post).records) : f \in {x \in ProfileFiles : x.json}}

\* <DPRT> <NUM>: one space, and after it digits and at least one
HasCourseForm(c) ==
    \E i \in 1..Len(c) :
        /\ c[i] = " "
        /\ \A j \in 1..Len(c) : c[j] = " " => j = i
        /\ i < Len(c)
        /\ \A j \in (i + 1)..Len(c) : c[j] \in Digits

\* C1: after a run, no output file holds a flattened record whose question
\* is empty or whose answer is null or empty.
C1_OnlyAnsweredWritten ==
    Ran =>
        \A f \in OutputFiles(out) :
            \A record \in Elems(f.content) :
                record \in FlattenedRecords =>
                    /\ record.question # ""
                    /\ record.answer # None
                    /\ record.answer # ""

\* the run got as far as the files: its argument passed the checks, the
\* output directory and every instance of the profile exist
ReachesFiles ==
    /\ HasCourseForm(course) /\ data.exists /\ OutBefore.exists
    /\ \A k \in 1..Len(data.profile) : data.instances[data.profile[k]].exists
    /\ \A k \in 1..Len(data.profile) :
          \A e \in Elems(OutBefore.entries) :
              e.name = data.profile[k] => e.kind = "dir"

\* C7: a raw file that is no JSON is skipped and the run goes on: it ends
\* normally and the surviving records of every other file are written.
C7_BadFileSkipped ==
    (/\ Ran /\ ReachesFiles
     /\ \E f \in ProfileFiles : ~f.json
     /\ \A f \in ProfileFiles : f.json => transform_post(f.post).error = NoError)
    =>
        /\ raised = NoError
        /\ \A k \in 1..Len(data.profile) :
              \A f \in Elems(data.instances[data.profile[k]].files) :
                  f.json =>
                      \A i \in 1..Len(transform_post(f.post).records) :
                          LET record == transform_post(f.post).records[i]
                          IN  ~SkipsRecord(record) =>
                                  \E e \in Elems(out.entries) :
                                      /\ e.name = data.profile[k]
                                      /\ \E o \in Elems(e.entries) :
                                            /\ o.name = OutputName(f.stem, i - 1)
                                            /\ o.content = <<record>>

\* C8: a second run on the unchanged corpus leaves the output directory as
\* the first run left it: the same files with the same contents.
C8_SecondRunSameOutput ==
    \A i \in 3..Len(outs) : outs[i] = outs[i - 1]

\* two runs that ended normally; the first cleared stale files and wrote
\* records, one of them over a stale file that could not be deleted
C8_Witness ==
    /\ Len(outs) = 3 /\ raised = NoError
    /\ outs[2] # outs[1]
    /\ \E f \in OutputFiles(outs[1]) : f.deletable /\ f.content = Stale
    /\ \E f \in OutputFiles(out) : ~f.deletable /\ f.content # Stale
    /\ \E f \in OutputFiles(out) : f.deletable /\ f.content # Stale

\* C10: a run that rejects its argument (no course form, or no raw data
\* directory) raises ValueError with the output directory untouched.
C10_RejectsBeforeCleanup ==
    (Ran /\ (~HasCourseForm(course) \/ ~data.exists)) =>
        /\ raised = ValueError
        /\ out = OutBefore

\* a course without the form, and an output directory the cleanup would
\* have emptied
C10_Witness ==
    /\ Ran /\ ~HasCourseForm(course)
    /\ raised = ValueError
    /\ out.exists
    /\ \E f \in OutputFiles(out) : f.deletable
    /\ remove_all_files_in_folder("transformed_data", out).dir # out

====
